---- MODULE Spec2Model ----
(***************************************************************************)
(* Model of the de2gui UI state machine (de2gui/widgets/ledwidget/         *)
(* ledwidget.go, which holds both the LedWidget and the UIState code) and  *)
(* of the demo application that supplies the callbacks (unnamed/part_001). *)
(*                                                                         *)
(* The program is single threaded: a handler (button press, setter call)   *)
(* runs to completion before the next one starts.  tick(count) is modelled *)
(* step by step (pc), because the order in which Go's range produces the   *)
(* entries of the futures map is unspecified; no other handler is enabled  *)
(* while a tick is in progress.                                            *)
(***************************************************************************)
EXTENDS Integers, Sequences, FiniteSets, TLC

VARIABLES
    key,          \* UIState.key
    futures,      \* UIState.futures: map tick -> list of callbacks
    Tick,         \* UIState.Tick
    OnKEY,        \* UIState.OnKEY   ("nil" or the name of the callback)
    OnTick,       \* UIState.OnTick
    OnReset,      \* UIState.OnReset
    ledr,         \* ledrWidget.state
    ledg,         \* ledgWidget.state
    ledrLabel,    \* text of ledrLabel
    ledgLabel,    \* text of ledgLabel
    cycleLabel,   \* text of cycleLabel
    hex,          \* hexWidgets[i].segments
    switchChecks, \* switchChecks[i].Checked
    pc,           \* "idle", "fire" while tick's range over futures runs,
                  \* or "panic" once a run-time panic has ended the program
    count,        \* tick's parameter
    i,            \* tick's loop variable
    ranged,       \* the map object the running range statement iterates
    same,         \* s.futures is still that map object
    produced,     \* keys the running range has produced
    created,      \* keys created in the ranged map since the range began
    reg,          \* history: every ScheduleFuture call, by callback id
    calls,        \* history: number of invocations of each callback id
    hist          \* history: observations of the last handler

vars == <<key, futures, Tick, OnKEY, OnTick, OnReset, ledr, ledg, ledrLabel,
          ledgLabel, cycleLabel, hex, switchChecks, pc, count, i, ranged,
          same, produced, created, reg, calls, hist>>

----------------------------------------------------------------------------
(* Program constants *)

numHex == 8
numRedLeds == 18
numGreenLeds == 9
numSwitches == 18
numKeys == 4
KeyPushMinTime == 10
KeyPushMaxTime == 250

(* Bounds of the model *)

\* Tick is not advanced beyond MaxTick
MaxTick == 12
\* ScheduleFuture is called at most MaxReg times in a behaviour
MaxReg == 2
\* ScheduleFuture's `when` is drawn from 0..MaxWhen
MaxWhen == 1
\* keys are pushed while Tick <= MaxPushTick
MaxPushTick == 1

Keys == 0 .. (numKeys - 1)

----------------------------------------------------------------------------
(* Integer helpers: bits of unsigned values *)

Pow2(n) == 2 ^ n

Bit(v, n) == (v \div Pow2(n)) % 2

\* v + (1 << n) in place of v | (1 << n)
SetBit_Add(v, n) == v + Pow2(n)

\* v | (1 << n)
SetBit(v, n) == IF Bit(v, n) = 1 THEN v ELSE v + Pow2(n)

\* v ^ (1 << n) in place of v & ^(1 << n)
ClearBit_Toggle(v, n) == IF Bit(v, n) = 1 THEN v - Pow2(n) ELSE v + Pow2(n)

\* v & ^(1 << n)
ClearBit(v, n) == IF Bit(v, n) = 1 THEN v - Pow2(n) ELSE v

\* a & b, bit by bit
RECURSIVE BitAnd(_, _)
BitAnd(a, b) ==
    IF a = 0 \/ b = 0 THEN 0
    ELSE (a % 2) * (b % 2) + 2 * BitAnd(a \div 2, b \div 2)

----------------------------------------------------------------------------
(* float64 arithmetic of pushKey's delay,                                  *)
(*   uint64(rand.Float64()*float64(KeyPushMaxTime) + float64(KeyPushMinTime)) *)
(* A non-negative binary number is a record [bits, exp]: bits is the       *)
(* significand, least significant bit first, and the value is              *)
(* significand * 2^exp.  A float64 has at most 53 significant bits.        *)

MantBits == 53

RECURSIVE BitsOf(_)
BitsOf(n) == IF n = 0 THEN << >> ELSE <<n % 2>> \o BitsOf(n \div 2)

RECURSIVE ValOf(_)
ValOf(bits) == IF bits = << >> THEN 0 ELSE Head(bits) + 2 * ValOf(Tail(bits))

Zeros(n) == [j \in 1 .. n |-> 0]
Ones(n) == [j \in 1 .. n |-> 1]

\* drop the zero bits at the most significant end
RECURSIVE Trim(_)
Trim(bits) ==
    IF bits = << >> THEN << >>
    ELSE IF bits[Len(bits)] = 0 THEN Trim(SubSeq(bits, 1, Len(bits) - 1))
    ELSE bits

\* bits * c + carry, for a small integer c
RECURSIVE MulSmall(_, _, _)
MulSmall(bits, c, carry) ==
    IF bits = << >> THEN BitsOf(carry)
    ELSE LET t == Head(bits) * c + carry
         IN  <<t % 2>> \o MulSmall(Tail(bits), c, t \div 2)

\* a + b + carry
RECURSIVE AddBits(_, _, _)
AddBits(a, b, carry) ==
    IF a = << >> /\ b = << >> THEN BitsOf(carry)
    ELSE LET x == IF a = << >> THEN 0 ELSE Head(a)
             y == IF b = << >> THEN 0 ELSE Head(b)
             t == x + y + carry
         IN  <<t % 2>> \o AddBits(IF a = << >> THEN a ELSE Tail(a),
                                  IF b = << >> THEN b ELSE Tail(b),
                                  t \div 2)

\* the exact value of a small unsigned integer (float64(n) is exact here)
FloatOfInt(n) == [bits |-> BitsOf(n), exp |-> 0]

\* the same value written with the smaller exponent e
Align(x, e) == [bits |-> Zeros(x.exp - e) \o x.bits, exp |-> e]

ExactMul(x, c) == [bits |-> Trim(MulSmall(x.bits, c, 0)), exp |-> x.exp]

ExactAdd(x, y) ==
    LET e == IF x.exp < y.exp THEN x.exp ELSE y.exp
    IN  [bits |-> Trim(AddBits(Align(x, e).bits, Align(y, e).bits, 0)),
         exp |-> e]

\* IEEE 754 round to nearest, ties to even, to MantBits significant bits
RoundFloat(x) ==
    LET n == Len(x.bits)
        d == n - MantBits
    IN  IF d <= 0 THEN x
        ELSE LET kept   == SubSeq(x.bits, d + 1, n)
                 guard  == x.bits[d]
                 sticky == \E j \in 1 .. (d - 1) : x.bits[j] = 1
                 up     == guard = 1 /\ (sticky \/ kept[1] = 1)
             IN  [bits |-> IF up THEN AddBits(kept, << >>, 1) ELSE kept,
                  exp  |-> x.exp + d]

\* uint64(x): the integer part of a non-negative float64
TruncToUint(x) ==
    IF x.exp >= 0 THEN ValOf(x.bits) * Pow2(x.exp)
    ELSE IF Len(x.bits) <= 0 - x.exp THEN 0
    ELSE ValOf(SubSeq(x.bits, 1 - x.exp, Len(x.bits)))

\* Results of rand.Float64(), all of the form m * 2^-53 with m < 2^53:
\* the smallest, 0, and the largest, 1 - 2^-53 (KeyPushDelay is monotone in
\* the draw, so these two give the extreme delays).
RandFloat64 ==
    { [bits |-> << >>, exp |-> 0 - MantBits],
      [bits |-> Ones(MantBits), exp |-> 0 - MantBits] }

\* The delay pushKey computes from the draw f.  The Go specification lets a
\* build fuse x*y + z into one rounding (arm64, ppc64, s390x) or round the
\* product first (amd64): fused selects the build.
KeyPushDelay(f, fused) ==
    LET prod == ExactMul(f, KeyPushMaxTime)
        sum  == IF fused
                THEN RoundFloat(ExactAdd(prod, FloatOfInt(KeyPushMinTime)))
                ELSE RoundFloat(ExactAdd(RoundFloat(prod),
                                         FloatOfInt(KeyPushMinTime)))
    IN  TruncToUint(sum)

\* the delays of the draws, computed once
DelayOf == [f \in RandFloat64, b \in BOOLEAN |-> KeyPushDelay(f, b)]

----------------------------------------------------------------------------
(* Text formatting (fmt.Sprintf) *)

DigitChar(d) ==
    <<"0", "1", "2", "3", "4", "5", "6", "7", "8", "9",
      "a", "b", "c", "d", "e", "f">>[d + 1]

\* the digits of n in the given base, most significant first; "0" for 0
RECURSIVE Digits(_, _)
Digits(n, base) ==
    IF n < base THEN <<DigitChar(n)>>
    ELSE Append(Digits(n \div base, base), DigitChar(n % base))

\* %0<width>x
PadHex(n, width) ==
    LET d == Digits(n, 16)
    IN  IF Len(d) >= width THEN d ELSE [j \in 1 .. (width - Len(d)) |-> "0"] \o d

\* fmt.Sprintf("(0x%05x)", v) and fmt.Sprintf("(0x%03x)", v)
FormatLed(v, width) == <<"(0x">> \o PadHex(v, width) \o <<")">>

\* fmt.Sprintf("cycle# %d", t)
FormatCycle(t) == <<"cycle# ">> \o Digits(t, 10)

----------------------------------------------------------------------------
(* LedWidget *)

\* LedWidget.Mask: count times mask = (mask << 1) | 1
RECURSIVE Mask(_)
Mask(n) == IF n = 0 THEN 0 ELSE 2 * Mask(n - 1) + 1

\* Update without the mask
LedUpdate_NoMask(newstate, n) == newstate

\* LedWidget.Update: the state the widget stores
LedUpdate(newstate, n) == BitAnd(newstate, Mask(n))

\* uint32(v) of a uint64
Uint32(v) == (v % Pow2(16)) + Pow2(16) * ((v \div Pow2(16)) % Pow2(16))

----------------------------------------------------------------------------
(* The hex displays *)

\* Go's a % n for n > 0: the remainder has the sign of a
GoMod(a, n) == IF a >= 0 THEN a % n ELSE 0 - ((0 - a) % n)

\* HexWidget.Update: h.segments = segments
HexUpdate(segments) == segments

\* hex displays created with every segment lit
InitHex_Lit == [d \in 0 .. (numHex - 1) |-> HexUpdate(0)]

\* NewUIState: s.hexWidgets[i].Update(0xff) for every i
InitHex == [d \in 0 .. (numHex - 1) |-> HexUpdate(Pow2(8) - 1)]

\* The children of the hex row's HBox, first (leftmost) to last (rightmost),
\* by their index in hexWidgets: hexWidgets[0], ..., hexWidgets[7]
HexRow == [p \in 1 .. numHex |-> p - 1]

----------------------------------------------------------------------------
(* The switches *)

\* The children of the switch row's HBox after its label, left to right, by
\* their index in switchChecks: the loop appends switchChecks[0] first
SwitchRow == [p \in 0 .. (numSwitches - 1) |-> p]

\* switchChecks[i] as bit i
SWBit_Left(j) == j

\* SW: switchChecks[i] is bit numSwitches - 1 - i
SWBit(j) == numSwitches - 1 - j

\* SW's loop from index j on, with val so far
RECURSIVE SWLoop(_, _, _)
SWLoop(checks, j, val) ==
    IF j >= numSwitches THEN val
    ELSE SWLoop(checks, j + 1,
                IF checks[j] THEN SetBit(val, SWBit(j)) ELSE val)

\* UIState.SW
SW(checks) == SWLoop(checks, 0, 0)

----------------------------------------------------------------------------
(* The futures map *)

EmptyMap == [k \in {} |-> << >>]

Put(f, k, v) == [x \in (DOMAIN f) \cup {k} |-> IF x = k THEN v ELSE f[x]]

\* a delete that removes nothing
Remove_Keep(f, k) == f

Remove(f, k) == [x \in (DOMAIN f) \ {k} |-> f[x]]

\* ids of the callbacks in the buckets of f whose key satisfies P
IdsOf(f, keys) == UNION { { f[k][j].id : j \in 1 .. Len(f[k]) } : k \in keys }

Ids(f) == IdsOf(f, DOMAIN f)

\* ids of the callbacks in the buckets of f whose key is at most t
IdsUpTo(f, t) == IdsOf(f, { k \in DOMAIN f : k <= t })

\* the test as `s.Tick > k`, and as `s.Tick + 1 >= k`
Due_Strict(t, k) == t > k
Due_Early(t, k) == t + 1 >= k

\* tick's test `s.Tick >= k`
Due(t, k) == t >= k

----------------------------------------------------------------------------
(* Callbacks.  A callback in the registry is [id, kind, arg]:              *)
(*   "release"  pushKey's closure: s.releaseKey(arg)                       *)
(*   "mark"     a caller's future that touches no UIState field            *)
(*   "clear"    a caller's future that calls s.ClearFutures()              *)
(*   "sched"    a caller's future that calls s.ScheduleFuture(arg, mark)   *)
(* OnKEY is "nil" or "print" (the demo's: reads KEY()); OnTick and OnReset *)
(* are "nil" or "demo".                                                    *)
(* The operators below act on a record of the fields a callback can change.*)

Cur == [key |-> key, futures |-> futures, ranged |-> ranged, same |-> same,
        created |-> created, reg |-> reg, calls |-> calls, hist |-> hist]

\* ClearFutures that leaves s.futures as it is
ClearFuturesIn_Keep(st) == [st EXCEPT !.hist.cleared = TRUE]

\* UIState.ClearFutures: s.futures becomes a new, empty map; a range
\* statement that is running keeps iterating the old map object
ClearFuturesIn(st) ==
    [st EXCEPT !.futures = EmptyMap, !.same = FALSE, !.hist.cleared = TRUE,
               !.hist.dropped = @ \cup Ids(st.futures)]

\* a callback put at the front of its bucket
AddCallback_Front(futurelist, cb) == <<cb>> \o futurelist

\* append(s.futures[when], f)
AddCallback(futurelist, cb) == Append(futurelist, cb)

\* UIState.ScheduleFuture
ScheduleFutureIn(st, when, kind, arg) ==
    LET cb    == [id |-> Len(st.reg) + 1, kind |-> kind, arg |-> arg]
        isNew == when \notin DOMAIN st.futures
        fut   == IF isNew THEN Put(st.futures, when, AddCallback(<< >>, cb))
                 ELSE [st.futures EXCEPT ![when] = AddCallback(@, cb)]
    IN  [st EXCEPT !.futures = fut,
                   !.ranged  = IF st.same THEN fut ELSE @,
                   !.created = IF st.same /\ isNew THEN @ \cup {when} ELSE @,
                   !.reg     = Append(@, [when |-> when, kind |-> kind,
                                          arg |-> arg]),
                   !.calls   = Append(@, 0)]

\* `if s.OnKEY != nil { s.OnKEY(s) }`
CallOnKEY(st) ==
    IF OnKEY = "nil" THEN st
    ELSE [st EXCEPT !.hist.onKeyCalls = @ + 1, !.hist.onKeySeen = st.key]

\* UIState.releaseKey
releaseKey(st, n) == CallOnKEY([st EXCEPT !.key = ClearBit(@, n)])

\* future(s); a "sched" callback that schedules for the tick of its own
\* bucket is noted in hist.nested
Invoke(st, cb) ==
    LET st1 == [st EXCEPT !.calls[cb.id] = @ + 1,
                          !.hist.fired = Append(@, cb.id)]
    IN  CASE cb.kind = "release" -> releaseKey(st1, cb.arg)
          [] cb.kind = "clear"   -> ClearFuturesIn(st1)
          [] cb.kind = "sched"   ->
                LET st2 == ScheduleFutureIn(st1, cb.arg, "mark", 0)
                IN  IF cb.arg = st1.reg[cb.id].when
                    THEN [st2 EXCEPT !.hist.nested = @ \cup {Len(st2.reg)}]
                    ELSE st2
          [] OTHER               -> st1

\* `for _, future := range futurelist { future(s) }`: the slice header is
\* read once, callbacks appended meanwhile are not visited
RECURSIVE RunList(_, _)
RunList(st, futurelist) ==
    IF futurelist = << >> THEN st
    ELSE RunList(Invoke(st, Head(futurelist)), Tail(futurelist))

----------------------------------------------------------------------------
(* Observations kept for the properties (hist):                            *)
(*   op, arg      the handler that ran last and its first argument         *)
(*   arg2         its second argument (SetHEX's state)                     *)
(*   onKeyCalls   OnKEY invocations made by that handler                   *)
(*   onKeySeen    KEY() as the last of them read it (-1: none)             *)
(*   onTickCalls  OnTick invocations made by that handler                  *)
(*   finalTrue    those of them that were passed true                      *)
(*   lastFinal    the flag passed to the last of them                      *)
(*   cleared      ClearFutures was called within that handler              *)
(*   tickStart    ids in the registry when tick was called                 *)
(*   stepDue      ids in buckets with key <= Tick when the tick step began *)
(*   discarded    ids that a ClearFutures call outside tick discarded      *)
(*   dropped      ids that were in the registry at any ClearFutures call   *)
(*   nested       ids a callback scheduled for the tick of its own bucket  *)
(*   late         ids tick invoked from a bucket that an earlier           *)
(*                ClearFutures call had found pending                      *)
(*   fired        the ids that handler invoked, in order                   *)
(*   scen         progress of the key release scenario (-1: left it)       *)

\* Scenario: fresh state, OnTick the demo's, pushKey(0) drawing the minimum
\* delay (1), then tick(9) (2), tick(1) (3), tick(1) (4).
ScenNext(op, arg) ==
    CASE op = "assign" /\ hist.scen = 0 -> 0
      [] op = "pushKey" /\ hist.scen = 0 /\ arg = 0 /\ Tick = 0
         /\ OnTick = "demo" -> 1
      [] op = "tick" /\ hist.scen = 1 /\ arg = 9 -> 2
      [] op = "tick" /\ hist.scen = 2 /\ arg = 1 -> 3
      [] op = "tick" /\ hist.scen = 3 /\ arg = 1 -> 4
      [] OTHER -> -1

NewHist(op, arg) ==
    [hist EXCEPT !.op = op, !.arg = arg, !.arg2 = 0,
                 !.onKeyCalls = 0, !.onKeySeen = -1,
                 !.onTickCalls = 0, !.finalTrue = 0, !.lastFinal = FALSE,
                 !.cleared = FALSE, !.tickStart = {}, !.stepDue = {},
                 !.fired = << >>,
                 !.scen = ScenNext(op, arg)]

Commit(st) ==
    /\ key' = st.key
    /\ futures' = st.futures
    /\ ranged' = st.ranged
    /\ same' = st.same
    /\ created' = st.created
    /\ reg' = st.reg
    /\ calls' = st.calls
    /\ hist' = st.hist

----------------------------------------------------------------------------
(* State after NewUIState *)

Init ==
    /\ key = 0
    /\ futures = EmptyMap
    /\ Tick = 0
    /\ OnKEY = "nil"
    /\ OnTick = "nil"
    /\ OnReset = "nil"
    /\ ledr = 0
    /\ ledg = 0
    /\ ledrLabel = <<"(0x", "0", "0", "0", "0", "0", ")">>
    /\ ledgLabel = <<"(0x", "0", "0", "0", ")">>
    /\ cycleLabel = <<"cycle# ", "-", "-">>
    /\ hex = InitHex
    /\ switchChecks = [j \in 0 .. (numSwitches - 1) |-> FALSE]
    /\ pc = "idle"
    /\ count = 0
    /\ i = 0
    /\ ranged = EmptyMap
    /\ same = FALSE
    /\ produced = {}
    /\ created = {}
    /\ reg = << >>
    /\ calls = << >>
    /\ hist = [op |-> "NewUIState", arg |-> 0, arg2 |-> 0, onKeyCalls |-> 0,
               onKeySeen |-> -1, onTickCalls |-> 0, finalTrue |-> 0,
               lastFinal |-> FALSE, cleared |-> FALSE, tickStart |-> {},
               stepDue |-> {}, discarded |-> {}, dropped |-> {},
               nested |-> {}, late |-> {}, fired |-> << >>,
               scen |-> 0]

panel == <<ledr, ledg, ledrLabel, ledgLabel, hex, switchChecks>>
callbacks == <<OnKEY, OnTick, OnReset>>
loop == <<pc, count, i, produced>>

----------------------------------------------------------------------------
(* Handlers *)

\* The caller assigns the public callback fields; as in the demo, it does so
\* after NewUIState and before the window runs.
SetUp == hist.op \in {"NewUIState", "assign"}

AssignOnKEY(f) ==
    /\ SetUp
    /\ f # OnKEY
    /\ OnKEY' = f
    /\ hist' = NewHist("assign", 0)
    /\ UNCHANGED <<key, futures, Tick, OnTick, OnReset, panel, cycleLabel,
                   loop, ranged, same, created, reg, calls>>

AssignOnTick(f) ==
    /\ SetUp
    /\ f # OnTick
    /\ OnTick' = f
    /\ hist' = NewHist("assign", 0)
    /\ UNCHANGED <<key, futures, Tick, OnKEY, OnReset, panel, cycleLabel,
                   loop, ranged, same, created, reg, calls>>

AssignOnReset(f) ==
    /\ SetUp
    /\ f # OnReset
    /\ OnReset' = f
    /\ hist' = NewHist("assign", 0)
    /\ UNCHANGED <<key, futures, Tick, OnKEY, OnTick, panel, cycleLabel,
                   loop, ranged, same, created, reg, calls>>

\* The registrations a call of ScheduleFuture with this callback leads to.
RegCost(kind) == IF kind = "sched" THEN 2 ELSE 1

\* UIState.ScheduleFuture, called by the application between handlers
ScheduleFuture(when, kind, arg) ==
    /\ pc = "idle"
    /\ Len(reg) + RegCost(kind) <= MaxReg
    /\ Commit(ScheduleFutureIn([Cur EXCEPT !.hist =
                                   NewHist("ScheduleFuture", 0)],
                               when, kind, arg))
    /\ UNCHANGED <<Tick, callbacks, panel, cycleLabel, loop>>

\* UIState.pushKey(n); f is what rand.Float64() returns
pushKey(n) ==
    /\ pc = "idle"
    /\ Tick <= MaxPushTick
    /\ Len(reg) < MaxReg
    /\ \E f \in RandFloat64, fused \in BOOLEAN :
          LET r       == DelayOf[f, fused]
              release == Tick + r
              st0     == [Cur EXCEPT !.hist =
                             [NewHist("pushKey", n) EXCEPT !.scen =
                                 IF r = KeyPushMinTime THEN @ ELSE -1]]
              st1     == ScheduleFutureIn(st0, release, "release", n)
              st2     == [st1 EXCEPT !.key = SetBit(@, n)]
          IN  Commit(CallOnKEY(st2))
    /\ UNCHANGED <<Tick, callbacks, panel, cycleLabel, loop>>

\* UIState.ClearFutures, called by the application between handlers
ClearFutures ==
    /\ pc = "idle"
    /\ Commit(ClearFuturesIn([Cur EXCEPT
                 !.hist = [NewHist("ClearFutures", 0) EXCEPT
                              !.discarded = @ \cup Ids(futures)]]))
    /\ UNCHANGED <<Tick, callbacks, panel, cycleLabel, loop>>

\* The counts the tick buttons and the "Tick N" entry pass to tick.
TickCounts == {-1, 0, 1, 9}

\* tick without the early return
IsNoTick_Never(n) == FALSE

\* tick's `if count == 0 { return }`
IsNoTick(n) == n = 0

\* the flag as i >= count
IsFinal_Late(j, n) == j >= n

\* OnTick's flag: (i+1) >= (count)
IsFinal(j, n) == (j + 1) >= n

\* UIState.tick(n), up to the first range statement
TickBegin(n) ==
    /\ pc = "idle"
    /\ (n >= 1 /\ OnTick = "demo") => Tick + n <= MaxTick
    /\ IF IsNoTick(n)
       THEN /\ hist' = NewHist("tick", n)
            /\ UNCHANGED <<cycleLabel, loop, ranged, same, created>>
       ELSE IF n <= 0
       THEN \* the loop body never runs
            /\ hist' = NewHist("tick", n)
            /\ cycleLabel' = FormatCycle(Tick)
            /\ UNCHANGED <<loop, ranged, same, created>>
       ELSE /\ hist' = [NewHist("tick", n) EXCEPT
                           !.tickStart = Ids(futures),
                           !.stepDue = IdsUpTo(futures, Tick)]
            /\ pc' = "fire"
            /\ count' = n
            /\ i' = 0
            /\ ranged' = futures
            /\ same' = TRUE
            /\ produced' = {}
            /\ created' = {}
            /\ UNCHANGED cycleLabel
    /\ UNCHANGED <<key, futures, Tick, callbacks, panel, reg, calls>>

\* One iteration of `for k, futurelist := range s.futures`: the range
\* produces an entry k of the map it iterates that it has not produced yet.
FireBucket(k) ==
    /\ pc = "fire"
    /\ k \in (DOMAIN ranged) \ produced
    /\ IF Due(Tick, k)
       THEN LET st0  == [Cur EXCEPT !.hist.late =
                                   @ \cup (IdsOf(ranged, {k}) \cap hist.dropped)]
                st1  == RunList(st0, ranged[k])
                \* delete(s.futures, k)
                fut2 == Remove(st1.futures, k)
                st2  == [st1 EXCEPT !.futures = fut2,
                                    !.ranged  = IF st1.same THEN fut2 ELSE @,
                                    !.created = @ \ {k}]
            IN  /\ Commit(st2)
                /\ produced' = IF st1.same THEN produced ELSE produced \cup {k}
       ELSE /\ produced' = produced \cup {k}
            /\ UNCHANGED <<key, futures, ranged, same, created, reg, calls,
                           hist>>
    /\ UNCHANGED <<Tick, callbacks, panel, cycleLabel, pc, count, i>>

\* a loop that may be left before the range has produced every entry
RangeDone_Early == TRUE

\* The range statement may end once every entry it has not produced was
\* created after it began (Go: such an entry may be produced or skipped).
RangeDone == ((DOMAIN ranged) \ produced) \subseteq created

\* a driver that advances Tick itself
TickAfterOnTick_Driver(f, t) == t + 1

\* s.Tick after `if s.OnTick != nil { s.OnTick(s, final) }`: the demo's
\* OnTick does s.Tick++
TickAfterOnTick(f, t) == IF f = "demo" THEN t + 1 ELSE t

\* The rest of the loop body, and of tick when the loop ends: the OnTick
\* call (the demo's: s.Tick++, and SetLEDR(uint32(s.Tick)) if final), then
\* either the next iteration's range statement or cycleLabel.SetText.
CallOnTick ==
    /\ pc = "fire"
    /\ RangeDone
    /\ LET final == IsFinal(i, count)
           t1    == TickAfterOnTick(OnTick, Tick)
           led   == IF OnTick = "demo" /\ final
                    THEN LedUpdate(Uint32(t1), numRedLeds) ELSE ledr
           h1    == IF OnTick = "nil" THEN hist
                    ELSE [hist EXCEPT !.onTickCalls = @ + 1,
                                      !.finalTrue = IF final THEN @ + 1 ELSE @,
                                      !.lastFinal = final]
       IN  /\ Tick' = t1
           /\ ledr' = led
           /\ ledrLabel' = IF OnTick = "demo" /\ final
                           THEN FormatLed(led, 5) ELSE ledrLabel
           /\ IF i + 1 < count
              THEN /\ i' = i + 1
                   /\ ranged' = futures
                   /\ same' = TRUE
                   /\ produced' = {}
                   /\ created' = {}
                   /\ hist' = [h1 EXCEPT !.stepDue = IdsUpTo(futures, t1)]
                   /\ UNCHANGED <<pc, count, cycleLabel>>
              ELSE /\ pc' = "idle"
                   /\ count' = 0
                   /\ i' = 0
                   /\ ranged' = EmptyMap
                   /\ same' = FALSE
                   /\ produced' = {}
                   /\ created' = {}
                   /\ hist' = [h1 EXCEPT !.stepDue = {}]
                   /\ cycleLabel' = FormatCycle(t1)
    /\ UNCHANGED <<key, futures, callbacks, ledg, ledgLabel, hex,
                   switchChecks, reg, calls>>

\* UIState.SetLEDR
SetLEDR(v) ==
    /\ pc = "idle"
    /\ ledr' = LedUpdate(v, numRedLeds)
    /\ ledrLabel' = FormatLed(ledr', 5)
    /\ hist' = NewHist("SetLEDR", v)
    /\ UNCHANGED <<key, futures, Tick, callbacks, ledg, ledgLabel, hex,
                   switchChecks, cycleLabel, loop, ranged, same, created,
                   reg, calls>>

\* UIState.SetLEDG (the label is formatted from ledrWidget.State())
SetLEDG(v) ==
    /\ pc = "idle"
    /\ ledg' = LedUpdate(v, numGreenLeds)
    /\ ledgLabel' = FormatLed(ledr, 3)
    /\ hist' = NewHist("SetLEDG", v)
    /\ UNCHANGED <<key, futures, Tick, callbacks, ledr, ledrLabel, hex,
                   switchChecks, cycleLabel, loop, ranged, same, created,
                   reg, calls>>

\* UIState.SetHEX: s.hexWidgets[i%numHex].Update(state); an index outside
\* 0 .. numHex-1 is a run-time panic
SetHEX(idx, state) ==
    /\ pc = "idle"
    /\ LET d == GoMod(idx, numHex)
       IN  IF d \in 0 .. (numHex - 1)
           THEN /\ hex' = [hex EXCEPT ![d] = HexUpdate(state)]
                /\ UNCHANGED pc
           ELSE /\ pc' = "panic"
                /\ UNCHANGED hex
    /\ hist' = [NewHist("SetHEX", idx) EXCEPT !.arg2 = state]
    /\ UNCHANGED <<key, futures, Tick, callbacks, ledr, ledg, ledrLabel,
                   ledgLabel, switchChecks, cycleLabel, count, i, produced,
                   ranged, same, created, reg, calls>>

\* A click on switch j: the check box flips, then its OnChanged runs
\* switchUpdate, which calls OnSW if set (the demo's prints SW()).
ToggleSW(j) ==
    /\ pc = "idle"
    /\ switchChecks' = [switchChecks EXCEPT ![j] = ~@]
    /\ hist' = NewHist("switchUpdate", j)
    /\ UNCHANGED <<key, futures, Tick, callbacks, ledr, ledg, ledrLabel,
                   ledgLabel, hex, cycleLabel, loop, ranged, same, created,
                   reg, calls>>

\* UIState.ClearSW (hist.arg: SW() before the call)
ClearSW ==
    /\ pc = "idle"
    /\ switchChecks' = [j \in 0 .. (numSwitches - 1) |-> FALSE]
    /\ hist' = NewHist("ClearSW", SW(switchChecks))
    /\ UNCHANGED <<key, futures, Tick, callbacks, ledr, ledg, ledrLabel,
                   ledgLabel, hex, cycleLabel, loop, ranged, same, created,
                   reg, calls>>

\* a reset that clears the state whether or not OnReset is set
ResetRuns_Always(f) == TRUE

\* `if s.OnReset != nil`
ResetRuns(f) == f # "nil"

\* The Reset button: `if s.OnReset != nil { s.OnReset(s) }`; the demo's
\* OnReset: Tick = 0, SetLEDR(0), SetLEDG(0), ClearFutures(), ClearSW(),
\* SetHEX(i, 0xff) for i < 8.
Reset ==
    /\ pc = "idle"
    /\ IF ~ResetRuns(OnReset)
       THEN /\ hist' = NewHist("reset", 0)
            /\ UNCHANGED <<key, futures, Tick, panel, ranged, same, created,
                           reg, calls>>
       ELSE /\ Tick' = 0
            /\ ledr' = LedUpdate(0, numRedLeds)
            /\ ledrLabel' = FormatLed(ledr', 5)
            /\ ledg' = LedUpdate(0, numGreenLeds)
            /\ ledgLabel' = FormatLed(ledr', 3)
            /\ Commit(ClearFuturesIn([Cur EXCEPT
                         !.hist = [NewHist("reset", 0) EXCEPT
                                      !.discarded = @ \cup Ids(futures)]]))
            /\ switchChecks' = [j \in 0 .. (numSwitches - 1) |-> FALSE]
            /\ hex' = [d \in 0 .. (numHex - 1) |-> 255]
    /\ UNCHANGED <<callbacks, cycleLabel, loop>>

----------------------------------------------------------------------------
(* Specifications *)

\* values passed to the LED setters
LedValues == {0, 1, 5, Pow2(9) - 1, Pow2(9), Pow2(9) + 5, Pow2(18) - 1,
              Pow2(18), Pow2(18) + Pow2(9) + 1, Pow2(30) + 7,
              (Pow2(30) - 1) + Pow2(30)}

\* The scheduler: callbacks, futures, keys and ticks.
Next ==
    \/ \E f \in {"nil", "print"} : AssignOnKEY(f)
    \/ \E f \in {"nil", "demo"} : AssignOnTick(f)
    \/ \E when \in 0 .. MaxWhen, kind \in {"mark", "clear"} :
          ScheduleFuture(when, kind, 0)
    \/ \E when \in 0 .. MaxWhen, arg \in 0 .. MaxWhen :
          ScheduleFuture(when, "sched", arg)
    \/ \E n \in Keys : pushKey(n)
    \/ ClearFutures
    \/ \E n \in TickCounts : TickBegin(n)
    \/ \E k \in DOMAIN ranged : FireBucket(k)
    \/ CallOnTick

Spec == Init /\ [][Next]_vars

\* The whole board with a few inputs of each kind.
BoardTicks == {0, 11}
BoardSwitches == {0, 17}
BoardLeds == {5}

NextBoard ==
    \/ \E f \in {"nil", "demo"} : AssignOnTick(f)
    \/ \E f \in {"nil", "demo"} : AssignOnReset(f)
    \/ ScheduleFuture(0, "mark", 0)
    \/ pushKey(0)
    \/ ClearFutures
    \/ \E n \in BoardTicks : TickBegin(n)
    \/ \E k \in DOMAIN ranged : FireBucket(k)
    \/ CallOnTick
    \/ \E j \in BoardSwitches : ToggleSW(j)
    \/ ClearSW
    \/ SetHEX(0, 0)
    \/ \E v \in BoardLeds : SetLEDR(v)
    \/ \E v \in BoardLeds : SetLEDG(v)
    \/ Reset

SpecBoard == Init /\ [][NextBoard]_vars

\* indices and segment bytes passed to SetHEX
HexIndexes == {-9, -8, -1, 0, 1, 7, 8, 9, 15, 16}
HexValues == {0, 6, 255}

\* The hex displays driven by SetHEX.
NextHex == \E idx \in HexIndexes, state \in HexValues : SetHEX(idx, state)

SpecHex == Init /\ [][NextHex]_vars

\* The LED banks driven by the setters.
NextPanel ==
    \/ \E v \in LedValues : SetLEDR(v)
    \/ \E v \in LedValues : SetLEDG(v)

SpecPanel == Init /\ [][NextPanel]_vars

----------------------------------------------------------------------------
(* Properties *)

AllIds == 1 .. Len(reg)

\* tick(count) with count >= 1 has returned, and OnTick is the demo's
\* (s.Tick++ once per step)
TickReturned ==
    pc = "idle" /\ hist.op = "tick" /\ hist.arg >= 1 /\ OnTick = "demo"

\* C1 as stated: when tick(count), count >= 1, returns, every callback that
\* was in the registry when it was called and whose `when` is <= the final
\* Tick has been invoked exactly once.
C1_AsStated ==
    TickReturned =>
        \A id \in hist.tickStart : reg[id].when <= Tick => calls[id] = 1

\* C1 amended: when tick(count), count >= 1, returns, every callback that
\* was in the registry when it was called and whose `when` is < the final
\* Tick (<= the Tick the last step observed) has been invoked exactly once,
\* provided no callback called ClearFutures during the advance.
C1_FiredByReturn ==
    (TickReturned /\ ~hist.cleared) =>
        \A id \in hist.tickStart : reg[id].when < Tick => calls[id] = 1

\* a 9 step advance has fired a callback scheduled for an earlier tick and
\* has left one scheduled for the final Tick alone
C1_Witness ==
    /\ TickReturned /\ ~hist.cleared
    /\ \E id \in hist.tickStart : reg[id].when < Tick /\ calls[id] = 1
    /\ \E id \in hist.tickStart : reg[id].when = Tick /\ calls[id] = 0

\* C2: no callback is invoked more than once, and a callback that has been
\* invoked is no longer in the registry.
C2_AtMostOnce ==
    \A id \in AllIds :
        /\ calls[id] <= 1
        /\ calls[id] = 1 => id \notin Ids(futures)

\* two callbacks have fired, one of them a key release, and at least one
\* more tick step has run since
C2_Witness ==
    /\ pc = "idle"
    /\ \E a, b \in AllIds :
          /\ a # b /\ calls[a] = 1 /\ calls[b] = 1
          /\ reg[a].kind = "release" /\ reg[b].kind # "release"
          /\ Tick >= reg[a].when + 1

\* C3: when OnTick is about to be invoked in a step, every callback that
\* was in a bucket with key <= Tick when the step began has been invoked
\* and is out of the registry, provided no callback called ClearFutures in
\* this pass; and no step invokes a callback whose `when` is > Tick.
C3_DueFiredBeforeOnTick ==
    /\ [][(pc = "fire" /\ (i' # i \/ pc' = "idle") /\ same) =>
             \A id \in hist.stepDue :
                 calls[id] = 1 /\ id \notin Ids(futures)]_vars
    /\ [][pc = "fire" =>
             \A id \in AllIds :
                 reg[id].when > Tick => calls'[id] = calls[id]]_vars

\* the range of a step has ended after firing a bucket scheduled for a past
\* tick, with a bucket for a later tick left in the registry
C3_Witness ==
    /\ pc = "fire" /\ RangeDone /\ same
    /\ \E id \in hist.stepDue : reg[id].when < Tick /\ calls[id] = 1
    /\ \E id \in Ids(futures) : reg[id].when > Tick /\ calls[id] = 0

\* C4 as stated: in the scenario (minimum delay, Tick 0, demo OnTick) the
\* key bank is 0b0001 after pushKey(0), bit 0 is set after tick(9), and
\* after one further tick(1) Tick is 10 and bit 0 is cleared.
C4_AsStated ==
    pc = "idle" =>
        /\ hist.scen = 1 => key = 1
        /\ hist.scen = 2 => Bit(key, 0) = 1
        /\ hist.scen = 3 => (Tick = 10 /\ Bit(key, 0) = 0)

\* C4 amended: in the scenario the key bank is 0b0001 after pushKey(0),
\* bit 0 is set after tick(9) (Tick 9) and still set after one further
\* tick(1) (Tick 10); the next tick(1), whose step observes Tick = 10,
\* clears it.
C4_ReleasedOneStepLater ==
    pc = "idle" =>
        /\ hist.scen = 1 => key = 1
        /\ hist.scen = 2 => (Tick = 9 /\ Bit(key, 0) = 1)
        /\ hist.scen = 3 => (Tick = 10 /\ Bit(key, 0) = 1)
        /\ hist.scen = 4 => (Tick = 11 /\ Bit(key, 0) = 0)

\* the scenario has run to the tick(1) that releases the key
C4_Witness == pc = "idle" /\ hist.scen = 4 /\ calls = <<1>>

\* tick(0) has just been called: the transition from an idle state that
\* records it
TickZero == pc = "idle" /\ hist'.op = "tick" /\ hist'.arg = 0

\* C5: tick(0) invokes no future and no OnTick, removes nothing from the
\* registry, and leaves the cycle text, the key bank, Tick, the LEDs, the
\* hex digits and the switches unchanged.
C5_TickZeroNoOp ==
    [][TickZero =>
          /\ UNCHANGED <<key, futures, Tick, panel, cycleLabel, calls, reg>>
          /\ pc' = "idle"
          /\ hist'.onTickCalls = 0 /\ hist'.onKeyCalls = 0]_vars

\* tick(0) has run with OnTick set and a due bucket in the registry
C5_Witness ==
    /\ pc = "idle" /\ hist.op = "tick" /\ hist.arg = 0 /\ OnTick = "demo"
    /\ \E k \in DOMAIN futures : k <= Tick
    /\ cycleLabel = <<"cycle# ", "-", "-">>

\* the number a decimal text shows
CharDigit(c) == CHOOSE d \in 0 .. 15 : DigitChar(d) = c

RECURSIVE DecValue(_)
DecValue(text) ==
    IF text = << >> THEN 0
    ELSE 10 * DecValue(SubSeq(text, 1, Len(text) - 1))
         + CharDigit(text[Len(text)])

\* C6: one call tick(count), count >= 1, with OnTick set invokes OnTick
\* exactly count times, passing true to the last invocation only; when it
\* returns the cycle text shows the current Tick.
C6_OnTickCountAndFlag ==
    /\ (pc = "fire" /\ OnTick # "nil") =>
           (hist.onTickCalls = i /\ hist.finalTrue = 0)
    /\ (pc = "idle" /\ hist.op = "tick" /\ hist.arg >= 1) =>
           /\ OnTick # "nil" =>
                  /\ hist.onTickCalls = hist.arg
                  /\ hist.finalTrue = 1
                  /\ hist.lastFinal
           /\ Head(cycleLabel) = "cycle# "
           /\ DecValue(Tail(cycleLabel)) = Tick

\* tick(9) has returned with OnTick set, at a two digit Tick
C6_Witness ==
    /\ pc = "idle" /\ hist.op = "tick" /\ hist.arg = 9 /\ OnTick = "demo"
    /\ hist.onTickCalls = 9 /\ Tick >= 10

\* pushKey has just been called: the transition from an idle state that
\* records it
PushKeyStep == pc = "idle" /\ hist'.op = "pushKey"

\* C7: pushKey(n) sets bit n of the key bank (and no other bit), invokes
\* OnKEY exactly once before it returns, that invocation reads KEY() with
\* bit n set, and exactly one callback, a release of key n, is added to the
\* registry.
C7_PushKey ==
    [][PushKeyStep =>
          LET n == hist'.arg
              new == Len(reg) + 1
          IN  /\ \A b \in Keys : Bit(key', b) = IF b = n THEN 1 ELSE Bit(key, b)
              /\ key' < Pow2(numKeys)
              /\ OnKEY # "nil" =>
                    (hist'.onKeyCalls = 1 /\ Bit(hist'.onKeySeen, n) = 1)
              /\ Len(reg') = new
              /\ reg'[new].kind = "release" /\ reg'[new].arg = n
              /\ Ids(futures') = Ids(futures) \cup {new}
              /\ \A k \in DOMAIN futures :
                    /\ k \in DOMAIN futures'
                    /\ SubSeq(futures'[k], 1, Len(futures[k])) = futures[k]
              /\ calls'[new] = 0]_vars

\* key 3 has been pushed while key 0 was held and its release was pending
C7_Witness ==
    /\ pc = "idle" /\ hist.op = "pushKey" /\ hist.arg = 3 /\ key = 9
    /\ OnKEY = "print" /\ hist.onKeyCalls = 1 /\ hist.onKeySeen = 9
    /\ Cardinality(Ids(futures)) = 2

\* the release callback of key n is the only press of key n so far
OnlyPress(id) ==
    /\ reg[id].kind = "release"
    /\ \A other \in AllIds :
          (reg[other].kind = "release" /\ reg[other].arg = reg[id].arg)
              => other = id

\* C8 as stated: the release pushKey schedules at Tick T has target t with
\* T + KeyPushMinTime <= t < T + KeyPushMinTime + KeyPushMaxTime; with the
\* demo's OnTick and no other press of the key (and the registry not
\* cleared), the bit stays set while Tick < t, and when the range of the
\* step that observes Tick = t has ended the bit is cleared and OnKEY has
\* read it cleared.
C8_AsStated ==
    /\ [][PushKeyStep =>
             LET t == reg'[Len(reg')].when
             IN  /\ Tick + KeyPushMinTime <= t
                 /\ t < Tick + KeyPushMinTime + KeyPushMaxTime]_vars
    /\ [](\A id \in AllIds :
             (OnlyPress(id) /\ OnTick = "demo" /\ id \notin hist.dropped) =>
                 /\ Tick < reg[id].when =>
                       (Bit(key, reg[id].arg) = 1 /\ calls[id] = 0)
                 /\ (pc = "fire" /\ RangeDone /\ Tick = reg[id].when) =>
                       /\ Bit(key, reg[id].arg) = 0
                       /\ calls[id] = 1
                       /\ OnKEY # "nil" =>
                             /\ hist.onKeyCalls >= 1
                             /\ Bit(hist.onKeySeen, reg[id].arg) = 0)

\* C9: after ClearFutures is called outside of tick the registry is empty,
\* and no callback it discarded is invoked or back in the registry at any
\* later time.
C9_DiscardedNeverRun ==
    /\ (pc = "idle" /\ hist.op = "ClearFutures") => futures = EmptyMap
    /\ \A id \in hist.discarded :
          calls[id] = 0 /\ id \notin Ids(futures) /\ id \notin Ids(ranged)

\* a callback that was due has been discarded, later steps have run, and a
\* callback scheduled after the ClearFutures call has fired
C9_Witness ==
    /\ pc = "idle" /\ hist.op = "tick"
    /\ \E d \in hist.discarded, a \in AllIds \ hist.discarded :
          reg[d].when < Tick /\ calls[d] = 0 /\ a > d /\ calls[a] = 1

\* C10: SetLEDR(v) stores v mod 2^18 and leaves the green bank alone,
\* SetLEDG(v) stores v mod 2^9 and leaves the red bank alone, and the banks
\* always hold values below 2^18 and 2^9.
C10_LedMask ==
    /\ [][(pc = "idle" /\ hist'.op = "SetLEDR") =>
             (ledr' = hist'.arg % Pow2(numRedLeds) /\ ledg' = ledg)]_vars
    /\ [][(pc = "idle" /\ hist'.op = "SetLEDG") =>
             (ledg' = hist'.arg % Pow2(numGreenLeds) /\ ledr' = ledr)]_vars
    /\ [](ledr < Pow2(numRedLeds) /\ ledg < Pow2(numGreenLeds))

\* SetLEDG has cut a value wider than 9 bits while the red bank held one
\* that SetLEDR had cut to 18 bits
C10_Witness ==
    /\ hist.op = "SetLEDG" /\ hist.arg = Pow2(18) + Pow2(9) + 1 /\ ledg = 1
    /\ ledr = Pow2(18) - 1

\* A SetHEX call has run.
SetHexStep == hist'.op = "SetHEX"

\* C11 as stated: SetHEX(i, v) for any integer i, negative ones included,
\* does not fault; it sets digit (i mod 8) to v and leaves the other seven
\* digits unchanged.
C11_AsStated ==
    [][SetHexStep =>
          /\ pc' # "panic"
          /\ hex' = [hex EXCEPT ![hist'.arg % numHex] = hist'.arg2]]_vars

\* C16 as stated: SetHEX(0, v) changes only the display rendered last
\* (rightmost) in the hex row, and SetHEX(7, v) only the one rendered first.
C16_AsStated ==
    [][(SetHexStep /\ pc' # "panic") =>
          \A p \in 1 .. numHex :
              hex'[HexRow[p]] # hex[HexRow[p]] =>
                  /\ hist'.arg = 0 => p = numHex
                  /\ hist'.arg = 7 => p = 1]_vars

\* C12: no operation of the core changes Tick itself: a step changes Tick
\* only by running a caller-supplied callback that does (the demo's OnTick
\* called by tick, the demo's OnReset called by the Reset button); with
\* OnTick nil no step of tick changes Tick.
C12_TickOnlyByCallbacks ==
    [][Tick' # Tick =>
          \/ /\ hist'.op = "tick" /\ OnTick = "demo"
             /\ hist'.onTickCalls = hist.onTickCalls + 1
             /\ Tick' = Tick + 1
          \/ hist'.op = "reset" /\ OnReset = "demo" /\ Tick' = 0]_vars

\* tick(11) has returned with OnTick nil, having fired a scheduled callback,
\* and Tick is still 0
C12_Witness ==
    /\ pc = "idle" /\ hist.op = "tick" /\ hist.arg = 11 /\ OnTick = "nil"
    /\ Tick = 0 /\ hist.onTickCalls = 0
    /\ \E id \in AllIds : reg[id].kind = "mark" /\ calls[id] = 1

\* C13: immediately after NewUIState the key bank is 0, SW() is 0, both LED
\* banks are 0, each of the 8 hex digits holds 0xff, the registry is empty
\* and Tick is 0.
C13_FreshState ==
    hist.op = "NewUIState" =>
        /\ key = 0
        /\ SW(switchChecks) = 0
        /\ ledr = 0 /\ ledg = 0
        /\ DOMAIN hex = 0 .. 7 /\ \A d \in 0 .. 7 : hex[d] = 255
        /\ futures = EmptyMap /\ Ids(futures) = {}
        /\ Tick = 0

\* the state NewUIState returns, before any handler has run
C13_Witness == hist.op = "NewUIState" /\ pc = "idle" /\ reg = << >>

\* The Reset button was clicked with OnReset nil.
ResetNilStep == hist'.op = "reset" /\ OnReset = "nil"

\* C14: a reset with OnReset nil leaves the key bank, the registry, the
\* switches, both LED banks, the hex digits and Tick unchanged.
C14_ResetOnlyCallsOnReset ==
    [][ResetNilStep =>
          UNCHANGED <<key, futures, switchChecks, ledr, ledg, hex, Tick>>]_vars

\* a reset with OnReset nil has run while key 0 was pressed, its release
\* was pending, a switch was on, the LED banks and a hex digit were set and
\* Tick was not 0
C14_Witness ==
    /\ hist.op = "reset" /\ OnReset = "nil"
    /\ key = 1 /\ Ids(futures) # {}
    /\ \E id \in Ids(futures) : reg[id].kind = "release"
    /\ switchChecks[0] /\ ledr # 0 /\ ledg # 0 /\ hex[0] = 0 /\ Tick # 0

\* ClearSW has run.
ClearSWStep == hist'.op = "ClearSW"

\* C15: for every j in 0..17, bit j of SW() is the checked state of the
\* switch at position 17 - j from the left and the bits above bit 17 are 0;
\* after ClearSW, SW() is 0 and the key bank, the registry, Tick, the LED
\* banks and the hex digits are unchanged.
C15_SwitchBits ==
    /\ [](/\ \A j \in 0 .. 17 :
              (Bit(SW(switchChecks), j) = 1) <=> switchChecks[SwitchRow[17 - j]]
          /\ SW(switchChecks) < Pow2(18))
    /\ [][ClearSWStep =>
             /\ SW(switchChecks') = 0
             /\ UNCHANGED <<key, futures, Tick, ledr, ledg, hex>>]_vars

\* ClearSW has run when the leftmost and the rightmost switch were on
\* (SW() was 0x20001), with key 0 pressed and its release pending
C15_Witness ==
    /\ hist.op = "ClearSW" /\ hist.arg = Pow2(17) + 1
    /\ SW(switchChecks) = 0
    /\ key = 1 /\ Ids(futures) # {} /\ ledr # 0 /\ hex[0] = 0

\* C17 as stated: a future that a callback schedules for the tick of the
\* bucket being drained is not lost: until it is invoked (or discarded by
\* ClearFutures) it is in the registry, waiting for the next tick step.
C17_AsStated ==
    \A id \in hist.nested :
        (calls[id] = 0 /\ id \notin hist.dropped) => id \in Ids(futures)

\* C18 as stated: once ClearFutures has been called from a callback during
\* a firing pass, no other bucket that was pending at that moment is
\* invoked, in that pass or later.
C18_AsStated == hist.late = {}

\* the release callbacks of key n among ids, r being the history of
\* registrations
ReleasesOf(r, n, ids) ==
    { id \in ids : r[id].kind = "release" /\ r[id].arg = n }

\* the ids that this step invoked
FiredNow == { id \in AllIds : calls'[id] = calls[id] + 1 }

\* C19: pushing key n while a release of key n is pending leaves that
\* release in the registry at its tick and adds a second one; whenever a
\* release of key n fires, bit n is clear afterwards and every bit that no
\* release of that step names is unchanged (a release that finds the bit
\* clear changes nothing), there is no fault, and OnKEY is invoked once per
\* release.
C19_DoublePress ==
    [][/\ (PushKeyStep /\ ReleasesOf(reg, hist'.arg, Ids(futures)) # {}) =>
             /\ \A k \in DOMAIN futures :
                   /\ k \in DOMAIN futures'
                   /\ SubSeq(futures'[k], 1, Len(futures[k])) = futures[k]
             /\ Cardinality(ReleasesOf(reg', hist'.arg, Ids(futures'))) =
                   Cardinality(ReleasesOf(reg, hist'.arg, Ids(futures))) + 1
       /\ \A n \in Keys :
             ReleasesOf(reg, n, FiredNow) # {} =>
                /\ Bit(key', n) = 0
                /\ \A b \in Keys :
                      ReleasesOf(reg, b, FiredNow) = {} => Bit(key', b) = Bit(key, b)
                /\ pc' # "panic"
                /\ OnKEY # "nil" =>
                      /\ hist'.onKeyCalls = hist.onKeyCalls
                            + Cardinality({ id \in FiredNow :
                                              reg[id].kind = "release" })
                      /\ hist'.onKeySeen = key']_vars

\* key 0 was pushed twice, at Tick 0 and at Tick 1; the first release
\* cleared the bit in an earlier step, and the last tick fired the second
\* release, which found the bit clear and still invoked OnKEY
C19_Witness ==
    /\ pc = "idle" /\ hist.op = "tick" /\ OnKEY = "print" /\ key = 0
    /\ \E a, b \in AllIds :
          /\ ReleasesOf(reg, 0, {a, b}) = {a, b}
          /\ reg[a].when < reg[b].when
          /\ calls[a] = 1 /\ calls[b] = 1
          /\ hist.fired = <<b>>
    /\ hist.onKeyCalls = 1 /\ hist.onKeySeen = 0

\* C20: callbacks registered for the same tick are invoked in the order of
\* their registration (ids are given in registration order).
C20_BucketOrder ==
    \A a, b \in 1 .. Len(hist.fired) :
        (a < b /\ reg[hist.fired[a]].when = reg[hist.fired[b]].when) =>
            hist.fired[a] < hist.fired[b]

\* one tick has invoked two callbacks of one bucket and a callback of
\* another bucket
C20_Witness ==
    /\ pc = "idle" /\ hist.op = "tick" /\ Len(hist.fired) = 3
    /\ \E a, b, c \in 1 .. 3 :
          /\ a < b
          /\ reg[hist.fired[a]].when = reg[hist.fired[b]].when
          /\ reg[hist.fired[c]].when # reg[hist.fired[a]].when

\* C21 as stated: whenever bit n of the key bank is set, a release of key n
\* is pending in the registry (so that advancing enough ticks clears it).
C21_AsStated ==
    \A n \in Keys :
        Bit(key, n) = 1 => ReleasesOf(reg, n, Ids(futures)) # {}

\* C22 as stated: after any sequence of SetLEDR and SetLEDG calls the green
\* label is the hexadecimal rendering of the green LED bank's state and the
\* red label that of the red LED bank's state.
C22_AsStated ==
    /\ ledgLabel = FormatLed(ledg, 3)
    /\ ledrLabel = FormatLed(ledr, 5)

====
